---- MODULE Spec2Model ----
\* A model of the dual waste classifier (waste-classifier.py) and of the
\* live-demo page that calls it (streamlit_app.py).
\*
\* Text is modelled as a sequence of one-character strings, so that
\* str.split and f-string formatting are computed character by character.
\* Probabilities are fixed-point integers in units of 1/PROB_ONE; a
\* confidence is an integer number of hundredths of a percent (8743 is 87.43).
EXTENDS Integers, Sequences, FiniteSets, TLC

VARIABLES
    clip_categories, \* self.clip_categories
    weights,         \* the loaded resnet_model / clip_model
    pc,              \* per caller: position inside classify_image
    input,           \* per caller: the image_path argument
    image,           \* per caller: local `image`
    resnet_result,   \* per caller: local `resnet_result`
    clip_result,     \* per caller: local `clip_result`
    result,          \* per caller: the returned string
    error,           \* per caller: the exception that left classify_image
    invoked,         \* per caller: the sub-classifiers invoked by this call
    raised,          \* per caller: the exception raised inside a sub-classifier
    history,         \* every outcome returned so far (observer's record)
    ui_pc,           \* position of show_live_demo
    ui_image,        \* show_live_demo's local `image`
    ui_error,        \* the exception that ended the page run
    ui_shown,        \* the text written by st.write
    probe            \* output of a single get_clip_prediction application

vars ==
    <<clip_categories, weights, pc, input, image, resnet_result, clip_result,
      result, error, invoked, raised, history, ui_pc, ui_image, ui_error,
      ui_shown, probe>>

-----------------------------------------------------------------------------
\* Bounds of the model

\* longest category list drawn for a single get_clip_prediction application
MaxCats == 2

\* largest exponentiated logit drawn for a single application
MaxScore == 2

\* The callers sharing one classifier object.
Threads == {"t1", "t2"}

-----------------------------------------------------------------------------
\* Text

NoText == <<>>

Digits == <<"0", "1", "2", "3", "4", "5", "6", "7", "8", "9">>

LIKE_SEP ==
    <<" ","l","i","k","e"," ">>

RECURSIVE IntStr(_)
\* str(n) for a non-negative integer
IntStr(n) ==
    IF n < 10 THEN <<Digits[n + 1]>>
    ELSE IntStr(n \div 10) \o <<Digits[(n % 10) + 1]>>

\* repr of the float h/100: the shortest decimal, with at least one
\* fractional digit ("87.43", "87.4", "87.0", "100.0", "0.05").
FloatRepr(h) ==
    LET frac == h % 100
    IN  IntStr(h \div 100) \o <<".">> \o
        (IF frac % 10 = 0 THEN <<Digits[(frac \div 10) + 1]>>
         ELSE <<Digits[(frac \div 10) + 1], Digits[(frac % 10) + 1]>>)

RECURSIVE Find(_, _, _)
\* lowest position >= i at which sep occurs in s, or 0
Find(s, sep, i) ==
    IF i + Len(sep) - 1 > Len(s) THEN 0
    ELSE IF SubSeq(s, i, i + Len(sep) - 1) = sep THEN i
    ELSE Find(s, sep, i + 1)

RECURSIVE FindLast(_, _, _)
FindLast(s, sep, i) ==
    IF i < 1 THEN 0
    ELSE IF SubSeq(s, i, i + Len(sep) - 1) = sep THEN i
    ELSE FindLast(s, sep, i - 1)

\* variant: s.rsplit(sep, 1)[0], cutting at the last separator
SplitLast(s, sep) ==
    LET k == FindLast(s, sep, Len(s) - Len(sep) + 1)
    IN  IF k = 0 THEN s ELSE SubSeq(s, 1, k - 1)

\* s.split(sep)[0]
SplitFirst(s, sep) ==
    LET k == Find(s, sep, 1)
    IN  IF k = 0 THEN s ELSE SubSeq(s, 1, k - 1)

-----------------------------------------------------------------------------
\* Construction

CLIP_CATEGORIES ==
    << <<"r","e","c","y","c","l","a","b","l","e"," ","p","l","a","s","t","i","c"," ","w","a","s","t","e"," ","l","i","k","e"," ","p","l","a","s","t","i","c"," ","b","o","t","t","l","e","s"," ","a","n","d"," ","c","o","n","t","a","i","n","e","r","s">>,
       <<"p","a","p","e","r"," ","w","a","s","t","e"," ","l","i","k","e"," ","n","e","w","s","p","a","p","e","r","s"," ","a","n","d"," ","c","a","r","d","b","o","a","r","d">>,
       <<"o","r","g","a","n","i","c"," ","w","a","s","t","e"," ","l","i","k","e"," ","f","o","o","d"," ","s","c","r","a","p","s"," ","a","n","d"," ","p","l","a","n","t"," ","m","a","t","e","r","i","a","l","s">>,
       <<"e","l","e","c","t","r","o","n","i","c"," ","w","a","s","t","e"," ","l","i","k","e"," ","o","l","d"," ","p","h","o","n","e","s"," ","a","n","d"," ","c","o","m","p","u","t","e","r","s">>,
       <<"g","l","a","s","s"," ","w","a","s","t","e"," ","l","i","k","e"," ","b","o","t","t","l","e","s"," ","a","n","d"," ","j","a","r","s">>,
       <<"m","e","t","a","l"," ","w","a","s","t","e"," ","l","i","k","e"," ","c","a","n","s"," ","a","n","d"," ","f","o","i","l">>,
       <<"h","a","z","a","r","d","o","u","s"," ","w","a","s","t","e"," ","l","i","k","e"," ","b","a","t","t","e","r","i","e","s"," ","a","n","d"," ","c","h","e","m","i","c","a","l","s">>,
       <<"g","e","n","e","r","a","l"," ","n","o","n","-","r","e","c","y","c","l","a","b","l","e"," ","w","a","s","t","e">> >>

\* resnet_model.config.id2label: the backend's fixed label vocabulary
\* (a three-label stand-in for the pretrained model's table).
ID2LABEL ==
    << <<"p","l","a","s","t","i","c","_","b","o","t","t","l","e">>, <<"c","a","r","t","o","n">>, <<"a","s","h","c","a","n">> >>

\* One in fixed point.
PROB_ONE == 100000

\* Pixel contents an image can have.
Px == {1, 2}

\* Candidate pretrained weights. A weight set fixes, per image content, the
\* exponentiated logits each backend's forward pass produces (0 where the
\* exponential underflows).
WEIGHT_SETS ==
    { [resnet |-> (1 :> <<8743, 1000, 257>> @@ 2 :> <<200, 625, 175>>),
       clip   |-> (1 :> <<9102, 300, 200, 100, 100, 100, 50, 48>>
                   @@ 2 :> <<1, 4, 1, 1, 1, 1, 1, 4>>)],
      [resnet |-> (1 :> <<1, 1, 1>> @@ 2 :> <<0, 7, 0>>),
       clip   |-> (1 :> <<1, 1, 1, 1, 1, 1, 1, 20000>>
                   @@ 2 :> <<3, 3, 3, 7, 3, 3, 7, 3>>)] }

-----------------------------------------------------------------------------
\* Exceptions and values

Ok(v) == [ok |-> TRUE, value |-> v, exc |-> ""]

Raise(e) == [ok |-> FALSE, value |-> <<>>, exc |-> e]

NoImage == [px |-> 0, mode |-> ""]

NoPrediction == [category |-> NoText, confidence |-> -1]

\* which sub-classifier raised, and what
NoRaise == [who |-> "", exc |-> ""]

-----------------------------------------------------------------------------
\* Tensor helpers

RECURSIVE SumTo(_, _)
SumTo(v, n) == IF n = 0 THEN 0 ELSE SumTo(v, n - 1) + v[n]

\* torch.nn.functional.softmax over exponentiated logits: each entry
\* divided by the sum of all entries.
Softmax(expl) ==
    [i \in 1..Len(expl) |-> (expl[i] * PROB_ONE) \div SumTo(expl, Len(expl))]

RECURSIVE MaxFrom(_, _, _)
\* scan from position i keeping the best position so far; a later entry
\* replaces it only when strictly greater
MaxFrom(v, i, best) ==
    IF i > Len(v) THEN best
    ELSE MaxFrom(v, i + 1, IF v[i] > v[best] THEN i ELSE best)

RECURSIVE MaxFromLast(_, _, _)
MaxFromLast(v, i, best) ==
    IF i > Len(v) THEN best
    ELSE MaxFromLast(v, i + 1, IF v[i] >= v[best] THEN i ELSE best)

\* variant: the index of the last occurrence of the maximum
TorchMaxLast(probs) ==
    LET b == MaxFromLast(probs, 2, 1)
    IN  [max_prob |-> probs[b], max_idx |-> b - 1]

\* torch.max(probs, 0) on a non-empty vector: (max value, zero-based index
\* of its first occurrence)
TorchMax(probs) ==
    LET b == MaxFrom(probs, 2, 1)
    IN  [max_prob |-> probs[b], max_idx |-> b - 1]

\* round(p * 100, 2) for a probability p in fixed point, in hundredths of a
\* percent; an exact half rounds to even
RoundConfidence(p) ==
    LET unit == PROB_ONE \div 10000
        q == p \div unit
        r == p % unit
    IN  IF 2 * r > unit THEN q + 1
        ELSE IF 2 * r < unit THEN q
        ELSE IF q % 2 = 0 THEN q ELSE q + 1

-----------------------------------------------------------------------------
\* Image decoding (PIL)

\* The files a reference can name: two images and one file that is no image.
FILES ==
    [a |-> [px |-> 1, mode |-> "RGB"],
     b |-> [px |-> 2, mode |-> "RGBA"],
     c |-> NoImage]

\* The arguments classify_image is called with: a filesystem path, an open
\* file handle, or an image that is already decoded.
REFS ==
    {[kind |-> "path", name |-> n, img |-> NoImage] : n \in {"a", "b", "c", "missing"}}
    \cup {[kind |-> "handle", name |-> n, img |-> NoImage] : n \in {"a", "c"}}
    \cup {[kind |-> "decoded", name |-> "", img |-> FILES[n]] : n \in {"a", "b"}}

NoRef == [kind |-> "", name |-> "", img |-> NoImage]

\* Image.open(fp): a path is opened and read, a handle is read, and their
\* bytes must identify as an image; an Image object has no read() to take
\* bytes from.
ImageOpen(fp) ==
    IF fp.kind = "decoded" THEN Raise("AttributeError")
    ELSE IF fp.kind = "path" /\ fp.name \notin DOMAIN FILES
        THEN Raise("FileNotFoundError")
    ELSE IF FILES[fp.name] = NoImage THEN Raise("UnidentifiedImageError")
    ELSE Ok(FILES[fp.name])

\* Image.convert('RGB')
ConvertRGB(img) == [img EXCEPT !.mode = "RGB"]

-----------------------------------------------------------------------------
\* The two sub-classifiers

\* resnet_model(**inputs).logits for an image, exponentiated
ResnetForward(img) == weights.resnet[img.px]

\* get_resnet_prediction, given that the forward pass returns
get_resnet_prediction(img) ==
    LET probs == Softmax(ResnetForward(img))
        m == TorchMax(probs)
    IN  [category |-> ID2LABEL[m.max_idx + 1],
         confidence |-> RoundConfidence(m.max_prob)]

\* clip_model(**inputs).logits_per_image for an image against
\* self.clip_categories, exponentiated: one entry per category
ClipForward(img) == weights.clip[img.px]

\* variant: an empty category list answers with a default Prediction
get_clip_prediction_default(img) ==
    IF Len(clip_categories) = 0
    THEN Ok([category |-> <<"g","e","n","e","r","a","l"," ","n","o","n","-","r","e","c","y","c","l","a","b","l","e"," ","w","a","s","t","e">>, confidence |-> 0])
    ELSE
        LET probs == Softmax(ClipForward(img))
            m == TorchMax(probs)
        IN  Ok([category |-> SplitFirst(clip_categories[m.max_idx + 1], LIKE_SEP),
                confidence |-> RoundConfidence(m.max_prob)])

\* get_clip_prediction, given that the forward pass returns. Indexing
\* self.clip_categories raises IndexError when the list is empty, whatever
\* the backend did with it before.
get_clip_prediction(img) ==
    IF Len(clip_categories) = 0 THEN Raise("IndexError")
    ELSE
        LET probs == Softmax(ClipForward(img))
            m == TorchMax(probs)
        IN  Ok([category |-> SplitFirst(clip_categories[m.max_idx + 1], LIKE_SEP),
                confidence |-> RoundConfidence(m.max_prob)])

\* variant: the f-string shows the Open-Vocabulary confidence
FormatResultClipConfidence(resnet, clip) ==
    <<"T","h","i","s"," ","i","s"," ">> \o resnet.category \o <<" ","w","i","t","h"," ">> \o FloatRepr(clip.confidence)
    \o <<"%"," ","c","o","n","f","i","d","e","n","c","e"," ">> \o <<"a","n","d"," ","t","h","e"," ","w","a","s","t","e"," ","t","y","p","e"," ","i","s"," ">> \o clip.category

\* the f-string of classify_image
FormatResult(resnet, clip) ==
    <<"T","h","i","s"," ","i","s"," ">> \o resnet.category \o <<" ","w","i","t","h"," ">> \o FloatRepr(resnet.confidence)
    \o <<"%"," ","c","o","n","f","i","d","e","n","c","e"," ">> \o <<"a","n","d"," ","t","h","e"," ","w","a","s","t","e"," ","t","y","p","e"," ","i","s"," ">> \o clip.category

\* classify_image run from start to end by a single caller, given that no
\* forward pass raises
classify_image(image_path) ==
    LET opened == ImageOpen(image_path)
        img == ConvertRGB(opened.value)
        clip == get_clip_prediction(img)
    IN  IF ~opened.ok THEN Raise(opened.exc)
        ELSE IF ~clip.ok THEN Raise(clip.exc)
        ELSE Ok(FormatResult(get_resnet_prediction(img), clip.value))

-----------------------------------------------------------------------------
\* Initial state: DualWasteClassifier.__init__ has run, nothing is in flight

NoProbe == [done |-> FALSE, ret |-> Raise("")]

Idle ==
    /\ pc = [t \in Threads |-> "idle"]
    /\ input = [t \in Threads |-> NoRef]
    /\ image = [t \in Threads |-> NoImage]
    /\ resnet_result = [t \in Threads |-> NoPrediction]
    /\ clip_result = [t \in Threads |-> NoPrediction]
    /\ result = [t \in Threads |-> NoText]
    /\ error = [t \in Threads |-> ""]
    /\ invoked = [t \in Threads |-> {}]
    /\ raised = [t \in Threads |-> NoRaise]
    /\ history = {}
    /\ ui_pc = "idle"
    /\ ui_image = NoImage
    /\ ui_error = ""
    /\ ui_shown = NoText
    /\ probe = NoProbe

Init ==
    /\ clip_categories = CLIP_CATEGORIES
    /\ weights \in WEIGHT_SETS
    /\ Idle

uiVars == <<ui_pc, ui_image, ui_error, ui_shown>>

-----------------------------------------------------------------------------
\* classify_image, one step per statement

\* a caller enters classify_image(image_path)
Call(t, image_path) ==
    /\ pc[t] \in {"idle", "returned", "failed"}
    /\ pc' = [pc EXCEPT ![t] = "called"]
    /\ input' = [input EXCEPT ![t] = image_path]
    /\ image' = [image EXCEPT ![t] = NoImage]
    /\ resnet_result' = [resnet_result EXCEPT ![t] = NoPrediction]
    /\ clip_result' = [clip_result EXCEPT ![t] = NoPrediction]
    /\ result' = [result EXCEPT ![t] = NoText]
    /\ error' = [error EXCEPT ![t] = ""]
    /\ invoked' = [invoked EXCEPT ![t] = {}]
    /\ raised' = [raised EXCEPT ![t] = NoRaise]
    /\ UNCHANGED <<clip_categories, weights, history, uiVars, probe>>

\* variant: a failed decode is caught and a blank image classified instead
OpenImageFallback(t) ==
    /\ pc[t] = "called"
    /\ LET opened == ImageOpen(input[t])
       IN  IF opened.ok
           THEN /\ image' = [image EXCEPT ![t] = ConvertRGB(opened.value)]
                /\ pc' = [pc EXCEPT ![t] = "opened"]
                /\ UNCHANGED error
           ELSE /\ image' = [image EXCEPT ![t] = [px |-> 1, mode |-> "RGB"]]
                /\ pc' = [pc EXCEPT ![t] = "opened"]
                /\ UNCHANGED error
    /\ UNCHANGED <<clip_categories, weights, input, resnet_result, clip_result,
                   result, invoked, raised, history, uiVars, probe>>

\* variant: the decoded image is kept on the classifier object (self.image),
\* which every caller reads
OpenImageShared(t) ==
    /\ pc[t] = "called"
    /\ LET opened == ImageOpen(input[t])
       IN  IF opened.ok
           THEN /\ image' = [u \in Threads |-> ConvertRGB(opened.value)]
                /\ pc' = [pc EXCEPT ![t] = "opened"]
                /\ UNCHANGED error
           ELSE /\ error' = [error EXCEPT ![t] = opened.exc]
                /\ pc' = [pc EXCEPT ![t] = "failed"]
                /\ UNCHANGED image
    /\ UNCHANGED <<clip_categories, weights, input, resnet_result, clip_result,
                   result, invoked, raised, history, uiVars, probe>>

\* image = Image.open(image_path).convert('RGB')
OpenImage(t) ==
    /\ pc[t] = "called"
    /\ LET opened == ImageOpen(input[t])
       IN  IF opened.ok
           THEN /\ image' = [image EXCEPT ![t] = ConvertRGB(opened.value)]
                /\ pc' = [pc EXCEPT ![t] = "opened"]
                /\ UNCHANGED error
           ELSE /\ error' = [error EXCEPT ![t] = opened.exc]
                /\ pc' = [pc EXCEPT ![t] = "failed"]
                /\ UNCHANGED image
    /\ UNCHANGED <<clip_categories, weights, input, resnet_result, clip_result,
                   result, invoked, raised, history, uiVars, probe>>

\* variant: what the Label Classifier raises is caught, and the call goes on
\* with a placeholder Prediction
ResnetStepContinue(t) ==
    /\ pc[t] = "opened"
    /\ invoked' = [invoked EXCEPT ![t] = @ \cup {"resnet"}]
    /\ \E forward_raises \in BOOLEAN :
        IF forward_raises
        THEN /\ raised' = [raised EXCEPT ![t] = [who |-> "resnet", exc |-> "RuntimeError"]]
             /\ resnet_result' =
                    [resnet_result EXCEPT ![t] = [category |-> <<"u","n","k","n","o","w","n">>, confidence |-> 0]]
             /\ pc' = [pc EXCEPT ![t] = "resnet_done"]
             /\ UNCHANGED error
        ELSE /\ resnet_result' =
                    [resnet_result EXCEPT ![t] = get_resnet_prediction(image[t])]
             /\ pc' = [pc EXCEPT ![t] = "resnet_done"]
             /\ UNCHANGED <<raised, error>>
    /\ UNCHANGED <<clip_categories, weights, input, image, clip_result, result,
                   history, uiVars, probe>>

\* variant: the model is left in training mode, so a forward pass updates
\* the batch-normalisation statistics held in the weights
ResnetStepTrainMode(t) ==
    /\ pc[t] = "opened"
    /\ invoked' = [invoked EXCEPT ![t] = @ \cup {"resnet"}]
    /\ \E forward_raises \in BOOLEAN :
        IF forward_raises
        THEN /\ raised' = [raised EXCEPT ![t] = [who |-> "resnet", exc |-> "RuntimeError"]]
             /\ error' = [error EXCEPT ![t] = "RuntimeError"]
             /\ pc' = [pc EXCEPT ![t] = "failed"]
             /\ UNCHANGED <<resnet_result, weights>>
        ELSE /\ resnet_result' =
                    [resnet_result EXCEPT ![t] = get_resnet_prediction(image[t])]
             /\ weights' = CHOOSE w \in WEIGHT_SETS : w # weights
             /\ pc' = [pc EXCEPT ![t] = "resnet_done"]
             /\ UNCHANGED <<raised, error>>
    /\ UNCHANGED <<clip_categories, input, image, clip_result, result,
                   history, uiVars, probe>>

\* resnet_result = self.get_resnet_prediction(image); the forward pass
\* either returns or raises, and nothing catches what it raises
ResnetStep(t) ==
    /\ pc[t] = "opened"
    /\ invoked' = [invoked EXCEPT ![t] = @ \cup {"resnet"}]
    /\ \E forward_raises \in BOOLEAN :
        IF forward_raises
        THEN /\ raised' = [raised EXCEPT ![t] = [who |-> "resnet", exc |-> "RuntimeError"]]
             /\ error' = [error EXCEPT ![t] = "RuntimeError"]
             /\ pc' = [pc EXCEPT ![t] = "failed"]
             /\ UNCHANGED resnet_result
        ELSE /\ resnet_result' =
                    [resnet_result EXCEPT ![t] = get_resnet_prediction(image[t])]
             /\ pc' = [pc EXCEPT ![t] = "resnet_done"]
             /\ UNCHANGED <<raised, error>>
    /\ UNCHANGED <<clip_categories, weights, input, image, clip_result, result,
                   history, uiVars, probe>>

\* variant: what the Open-Vocabulary Classifier raises is caught and a
\* default Prediction substituted
ClipStepDefault(t) ==
    /\ pc[t] = "resnet_done"
    /\ invoked' = [invoked EXCEPT ![t] = @ \cup {"clip"}]
    /\ \E forward_raises \in BOOLEAN :
        LET ret == IF forward_raises THEN Raise("RuntimeError")
                   ELSE get_clip_prediction(image[t])
        IN  IF ~ret.ok
            THEN /\ raised' = [raised EXCEPT ![t] = [who |-> "clip", exc |-> ret.exc]]
                 /\ clip_result' = [clip_result EXCEPT ![t] =
                        [category |-> <<"g","e","n","e","r","a","l"," ","n","o","n","-","r","e","c","y","c","l","a","b","l","e"," ","w","a","s","t","e">>, confidence |-> 0]]
                 /\ pc' = [pc EXCEPT ![t] = "clip_done"]
                 /\ UNCHANGED error
            ELSE /\ clip_result' = [clip_result EXCEPT ![t] = ret.value]
                 /\ pc' = [pc EXCEPT ![t] = "clip_done"]
                 /\ UNCHANGED <<raised, error>>
    /\ UNCHANGED <<clip_categories, weights, input, image, resnet_result, result,
                   history, uiVars, probe>>

\* clip_result = self.get_clip_prediction(image)
ClipStep(t) ==
    /\ pc[t] = "resnet_done"
    /\ invoked' = [invoked EXCEPT ![t] = @ \cup {"clip"}]
    /\ \E forward_raises \in BOOLEAN :
        LET ret == IF forward_raises THEN Raise("RuntimeError")
                   ELSE get_clip_prediction(image[t])
        IN  IF ~ret.ok
            THEN /\ raised' = [raised EXCEPT ![t] = [who |-> "clip", exc |-> ret.exc]]
                 /\ error' = [error EXCEPT ![t] = ret.exc]
                 /\ pc' = [pc EXCEPT ![t] = "failed"]
                 /\ UNCHANGED clip_result
            ELSE /\ clip_result' = [clip_result EXCEPT ![t] = ret.value]
                 /\ pc' = [pc EXCEPT ![t] = "clip_done"]
                 /\ UNCHANGED <<raised, error>>
    /\ UNCHANGED <<clip_categories, weights, input, image, resnet_result, result,
                   history, uiVars, probe>>

\* result = f"..." ; return result
ReturnResult(t) ==
    /\ pc[t] = "clip_done"
    /\ result' = [result EXCEPT ![t] = FormatResult(resnet_result[t], clip_result[t])]
    /\ pc' = [pc EXCEPT ![t] = "returned"]
    /\ history' = history \cup
            {[px |-> image[t].px, resnet |-> resnet_result[t],
              clip |-> clip_result[t], result |-> result'[t]]}
    /\ UNCHANGED <<clip_categories, weights, input, image, resnet_result,
                   clip_result, error, invoked, raised, uiVars, probe>>

-----------------------------------------------------------------------------
\* The live-demo page

\* the methods DualWasteClassifier defines
METHODS ==
    {"__init__", "get_resnet_prediction", "get_clip_prediction", "classify_image"}

\* attribute lookup of a method on the classifier object
GetMethod(name) ==
    IF name \in METHODS THEN Ok(name) ELSE Raise("AttributeError")

classifyVars ==
    <<clip_categories, weights, pc, input, image, resnet_result, clip_result,
      result, error, invoked, raised, history>>

\* uploaded_file is not None: image = Image.open(uploaded_file); st.image(image)
UIUpload(name) ==
    /\ ui_pc = "idle"
    /\ LET opened == ImageOpen([kind |-> "handle", name |-> name, img |-> NoImage])
       IN  IF opened.ok
           THEN /\ ui_image' = opened.value
                /\ ui_pc' = "uploaded"
                /\ UNCHANGED ui_error
           ELSE /\ ui_error' = opened.exc
                /\ ui_pc' = "error"
                /\ UNCHANGED ui_image
    /\ UNCHANGED <<ui_shown, classifyVars, probe>>

\* classification_result = self.classifier.classify(image); st.write(...)
UIClassify ==
    /\ ui_pc = "uploaded"
    /\ LET method == GetMethod("classify")
           ret == IF method.ok
                  THEN classify_image([kind |-> "decoded", name |-> "", img |-> ui_image])
                  ELSE Raise(method.exc)
       IN  IF ret.ok
           THEN /\ ui_shown' = <<"*","*","C","l","a","s","s","i","f","i","c","a","t","i","o","n"," ","R","e","s","u","l","t",":","*","*"," ">> \o ret.value
                /\ ui_pc' = "rendered"
                /\ UNCHANGED ui_error
           ELSE /\ ui_error' = ret.exc
                /\ ui_pc' = "error"
                /\ UNCHANGED ui_shown
    /\ UNCHANGED <<ui_image, classifyVars, probe>>

\* the page script is run again from the top
UIRerun ==
    /\ ui_pc \in {"error", "rendered"}
    /\ ui_pc' = "idle"
    /\ ui_image' = NoImage
    /\ ui_error' = ""
    /\ ui_shown' = NoText
    /\ UNCHANGED <<classifyVars, probe>>

-----------------------------------------------------------------------------

Next ==
    \/ \E t \in Threads : \E image_path \in REFS : Call(t, image_path)
    \/ \E t \in Threads : OpenImage(t)
    \/ \E t \in Threads : ResnetStep(t)
    \/ \E t \in Threads : ClipStep(t)
    \/ \E t \in Threads : ReturnResult(t)
    \/ \E name \in {"a", "b", "c"} : UIUpload(name)
    \/ UIClassify
    \/ UIRerun

Spec == Init /\ [][Next]_vars

-----------------------------------------------------------------------------
\* get_clip_prediction as a function of the category list and the scores:
\* the classifier is constructed with any category list of up to MaxCats
\* descriptions and any scores, and get_clip_prediction is applied once.

DESCRIPTIONS ==
    { <<"g","l","a","s","s"," ","w","a","s","t","e"," ","l","i","k","e"," ","b","o","t","t","l","e","s"," ","a","n","d"," ","j","a","r","s">>,
      <<"m","e","t","a","l"," ","w","a","s","t","e"," ","l","i","k","e"," ","c","a","n","s"," ","l","i","k","e"," ","f","o","i","l">>,
      <<"l","i","k","e"," ","n","e","w"," ","i","t","e","m","s">>,
      <<"i","t","e","m","s"," ","i"," ","l","i","k","e">>,
      <<"g","l","a","s","s","l","i","k","e"," ","w","a","s","t","e">>,
      <<" ","l","i","k","e"," ">>,
      <<"g","l","a","s","s"," ","w","a","s","t","e">>,
      <<"g","e","n","e","r","a","l"," ","n","o","n","-","r","e","c","y","c","l","a","b","l","e"," ","w","a","s","t","e">> }

CategoryLists == UNION {[1..n -> DESCRIPTIONS] : n \in 0..MaxCats}

InitClip ==
    /\ clip_categories \in CategoryLists
    /\ \E scores \in [1..Len(clip_categories) -> 1..MaxScore] :
            weights = [resnet |-> [p \in Px |-> <<1, 1, 1>>],
                       clip |-> [p \in Px |-> scores]]
    /\ Idle

ApplyClip(px) ==
    /\ ~probe.done
    /\ probe' = [done |-> TRUE,
                 ret |-> get_clip_prediction([px |-> px, mode |-> "RGB"])]
    /\ UNCHANGED <<classifyVars, uiVars>>

NextClip == \E px \in Px : ApplyClip(px)

SpecClip == InitClip /\ [][NextClip]_vars

-----------------------------------------------------------------------------
\* Vocabulary of the properties

\* The exceptions that report a bad input: an image reference that cannot
\* be decoded, or a category list with nothing in it.
IsInputError(e) ==
    e \in {"FileNotFoundError", "UnidentifiedImageError", "AttributeError", "IndexError"}

IsDigit(c) == \E d \in 1..10 : Digits[d] = c

DigitValue(c) == (CHOOSE d \in 1..10 : Digits[d] = c) - 1

RECURSIVE NatValue(_)
NatValue(ds) ==
    IF Len(ds) = 0 THEN 0
    ELSE NatValue(SubSeq(ds, 1, Len(ds) - 1)) * 10 + DigitValue(ds[Len(ds)])

\* The number of hundredths a decimal numeral "w.f" or "w.ff" denotes, or
\* -1 when the text is no such numeral.
DecimalHundredths(txt) ==
    LET dots == {k \in 1..Len(txt) : txt[k] = "."}
        dot == CHOOSE k \in dots : TRUE
        whole == SubSeq(txt, 1, dot - 1)
        frac == SubSeq(txt, dot + 1, Len(txt))
    IN  IF Cardinality(dots) # 1 THEN -1
        ELSE IF Len(whole) = 0 \/ Len(frac) \notin {1, 2} THEN -1
        ELSE IF \E k \in 1..Len(txt) : k # dot /\ ~IsDigit(txt[k]) THEN -1
        ELSE NatValue(whole) * 100
             + (IF Len(frac) = 1 THEN 10 * DigitValue(frac[1]) ELSE NatValue(frac))

\* The positions at which the separator " like " occurs in a description.
LikePositions(d) ==
    {k \in 1..Len(d) : k + 5 <= Len(d) /\ SubSeq(d, k, k + 5) = <<" ","l","i","k","e"," ">>}

\* The clause before the first " like ", or the whole description.
ClauseBeforeLike(d) ==
    IF LikePositions(d) = {} THEN d
    ELSE LET first == CHOOSE k \in LikePositions(d) : \A j \in LikePositions(d) : k <= j
         IN  SubSeq(d, 1, first - 1)

\* The scores the probed application ranks, one per category.
ProbeScores == weights.clip[1]

\* The list positions holding the top score.
TopPositions == {i \in 1..Len(ProbeScores) : \A j \in 1..Len(ProbeScores) : ProbeScores[j] <= ProbeScores[i]}

\* A reference that names or holds a well-formed image.
Resolvable(ref) ==
    IF ref.kind = "decoded" THEN ref.img # NoImage
    ELSE ref.name \in DOMAIN FILES /\ FILES[ref.name] # NoImage

-----------------------------------------------------------------------------
\* Properties

\* C1: every string classify_image returns is exactly "This is " + c1 +
\* " with " + p1 + "% confidence and the waste type is " + c2, where (c1, p1)
\* is the Label Classifier's Prediction and c2 the Open-Vocabulary category;
\* the Open-Vocabulary confidence is not in it. plastic_bottle at 87.43 with
\* "recyclable plastic waste" gives the sentence of the documented example.
C1_ResultFormat ==
    \A t \in Threads :
        pc[t] = "returned" =>
            LET c1 == resnet_result[t].category
                c2 == clip_result[t].category
                head == <<"T","h","i","s"," ","i","s"," ">> \o c1 \o <<" ","w","i","t","h"," ">>
                tail == <<"%"," ","c","o","n","f","i","d","e","n","c","e"," ","a","n","d"," ","t","h","e"," ","w","a","s","t","e"," ","t","y","p","e"," ","i","s"," ">> \o c2
                r == result[t]
            IN  /\ Len(r) >= Len(head) + Len(tail)
                /\ SubSeq(r, 1, Len(head)) = head
                /\ SubSeq(r, Len(r) - Len(tail) + 1, Len(r)) = tail
                /\ DecimalHundredths(SubSeq(r, Len(head) + 1, Len(r) - Len(tail)))
                        = resnet_result[t].confidence
                /\ (c1 = <<"p","l","a","s","t","i","c","_","b","o","t","t","l","e">> /\ resnet_result[t].confidence = 8743
                        /\ c2 = <<"r","e","c","y","c","l","a","b","l","e"," ","p","l","a","s","t","i","c"," ","w","a","s","t","e">>)
                   => r = <<"T","h","i","s"," ","i","s"," ","p","l","a","s","t","i","c","_","b","o","t","t","l","e"," ","w","i","t","h"," ","8","7",".","4","3","%"," ","c","o","n","f","i","d","e","n","c","e"," ","a","n","d"," ","t","h","e"," ","w","a","s","t","e"," ","t","y","p","e"," ","i","s"," ","r","e","c","y","c","l","a","b","l","e"," ","p","l","a","s","t","i","c"," ","w","a","s","t","e">>

\* a call has returned the example sentence while the Open-Vocabulary
\* confidence was 91.02
C1_Witness ==
    \E t \in Threads :
        /\ pc[t] = "returned"
        /\ result[t] = <<"T","h","i","s"," ","i","s"," ","p","l","a","s","t","i","c","_","b","o","t","t","l","e"," ","w","i","t","h"," ","8","7",".","4","3","%"," ","c","o","n","f","i","d","e","n","c","e"," ","a","n","d"," ","t","h","e"," ","w","a","s","t","e"," ","t","y","p","e"," ","i","s"," ","r","e","c","y","c","l","a","b","l","e"," ","p","l","a","s","t","i","c"," ","w","a","s","t","e">>
        /\ clip_result[t].confidence = 9102

\* C2: when a sub-classifier raises, the call fails with that exception and
\* returns no string; a returned string is built from the Predictions both
\* sub-classifiers returned in that same call.
C2_FailurePropagates ==
    \A t \in Threads :
        /\ raised[t] # NoRaise =>
                /\ pc[t] = "failed"
                /\ error[t] = raised[t].exc
                /\ result[t] = NoText
        /\ pc[t] = "returned" =>
                /\ raised[t] = NoRaise
                /\ invoked[t] = {"resnet", "clip"}
                /\ resnet_result[t] = get_resnet_prediction(image[t])
                /\ clip_result[t] = get_clip_prediction(image[t]).value
                /\ result[t] # NoText

\* the Open-Vocabulary Classifier raised after the Label Classifier had
\* returned, and the call failed
C2_Witness ==
    \E t \in Threads :
        /\ raised[t].who = "clip"
        /\ resnet_result[t] # NoPrediction
        /\ pc[t] = "failed"

\* C3: when the input cannot be decoded, the call fails with an input error
\* and neither sub-classifier is invoked in that call; a sub-classifier is
\* only ever invoked on a decoded 3-channel image.
C3_DecodeFailsFirst ==
    \A t \in Threads :
        /\ (pc[t] \notin {"idle", "called"} /\ ~ImageOpen(input[t]).ok) =>
                /\ pc[t] = "failed"
                /\ IsInputError(error[t])
                /\ invoked[t] = {}
                /\ result[t] = NoText
        /\ invoked[t] # {} =>
                /\ ImageOpen(input[t]).ok
                /\ image[t] = ConvertRGB(ImageOpen(input[t]).value)

\* a call on the file that is no image has failed
C3_Witness ==
    \E t \in Threads :
        /\ input[t] = [kind |-> "path", name |-> "c", img |-> NoImage]
        /\ pc[t] = "failed"
        /\ error[t] = "UnidentifiedImageError"

\* C4: when the Label Classifier raises, the call fails and the
\* Open-Vocabulary Classifier is not invoked in that call; it is invoked only
\* once the Label Classifier has returned its Prediction.
C4_FailFast ==
    \A t \in Threads :
        /\ raised[t].who = "resnet" =>
                /\ pc[t] = "failed"
                /\ "clip" \notin invoked[t]
        /\ "clip" \in invoked[t] =>
                /\ "resnet" \in invoked[t]
                /\ raised[t].who # "resnet"
                /\ resnet_result[t] # NoPrediction

\* the Label Classifier raised in a call
C4_Witness ==
    \E t \in Threads :
        /\ raised[t].who = "resnet"
        /\ invoked[t] = {"resnet"}
        /\ pc[t] = "failed"

\* C5: on a non-empty category list, the category get_clip_prediction
\* returns is the clause before the first " like " of a top-scored
\* description of the list, or that whole description when it holds no
\* " like ".
C5_CategoryDerivation ==
    (probe.done /\ Len(clip_categories) > 0) =>
        /\ probe.ret.ok
        /\ \E i \in TopPositions :
                probe.ret.value.category = ClauseBeforeLike(clip_categories[i])

\* the description with two separators won and was cut at the first one
C5_Witness ==
    /\ probe.done
    /\ probe.ret.ok
    /\ Len(clip_categories) = 2
    /\ clip_categories[2] = <<"m","e","t","a","l"," ","w","a","s","t","e"," ","l","i","k","e"," ","c","a","n","s"," ","l","i","k","e"," ","f","o","i","l">>
    /\ ProbeScores[2] > ProbeScores[1]
    /\ probe.ret.value.category = <<"m","e","t","a","l"," ","w","a","s","t","e">>

C7_LowestIndexWins ==
    (probe.done /\ Cardinality(TopPositions) >= 2) =>
        LET lowest == CHOOSE i \in TopPositions : \A j \in TopPositions : i <= j
        IN  /\ probe.ret.ok
            /\ probe.ret.value.category = ClauseBeforeLike(clip_categories[lowest])

\* two descriptions with different labels tied and the first one won
C7_Witness ==
    /\ probe.done
    /\ Len(clip_categories) = 2
    /\ ProbeScores[1] = ProbeScores[2]
    /\ clip_categories[1] = <<"g","e","n","e","r","a","l"," ","n","o","n","-","r","e","c","y","c","l","a","b","l","e"," ","w","a","s","t","e">>
    /\ clip_categories[2] = <<"g","l","a","s","s"," ","w","a","s","t","e"," ","l","i","k","e"," ","b","o","t","t","l","e","s"," ","a","n","d"," ","j","a","r","s">>
    /\ probe.ret.value.category = <<"g","e","n","e","r","a","l"," ","n","o","n","-","r","e","c","y","c","l","a","b","l","e"," ","w","a","s","t","e">>

\* C8: all calls that returned for the same image returned the same two
\* Predictions and the same string.
C8_SameImageSameOutcome ==
    \A h1, h2 \in history : h1.px = h2.px => h1 = h2

\* both images have been classified, and two calls on the same image have
\* both returned
C8_Witness ==
    /\ {h.px : h \in history} = Px
    /\ \E t \in Threads :
            /\ pc[t] = "returned"
            /\ \E u \in Threads \ {t} : pc[u] = "returned" /\ image[u].px = image[t].px

\* C9: classify accepts a decoded image as well as a reference to one and
\* returns a classification string for it, and the live-demo page renders
\* the string it gets for the uploaded image.
C9_DecodedOrReferenceClassified ==
    /\ \A t \in Threads :
            (pc[t] \in {"returned", "failed"} /\ Resolvable(input[t])
                    /\ raised[t] = NoRaise) =>
                /\ pc[t] = "returned"
                /\ result[t] # NoText
    /\ (ui_pc \in {"rendered", "error"} /\ ui_image # NoImage) =>
            /\ ui_pc = "rendered"
            /\ ui_shown # NoText

\* C10: weights and category list never change after construction, and a
\* call that returns, whatever the other caller does meanwhile, returns the
\* string classify_image gives for its argument when run alone.
C10_SharedWithoutLocking ==
    /\ [](\A t \in Threads :
            pc[t] = "returned" =>
                /\ classify_image(input[t]).ok
                /\ result[t] = classify_image(input[t]).value)
    /\ [][weights' = weights /\ clip_categories' = clip_categories]_vars

\* both callers are inside classify_image on different images, and one of
\* them has returned
C10_Witness ==
    /\ pc["t1"] = "returned"
    /\ pc["t2"] \in {"opened", "resnet_done", "clip_done", "returned"}
    /\ image["t1"].px # image["t2"].px

====
